---- MODULE Spec2Model ----
(***************************************************************************)
(* Model of speech/snippets/transcribe_streaming_voice_activity_events.py: *)
(* the function transcribe_streaming_voice_activity_events reads an audio  *)
(* buffer, cuts it into chunks, hands a lazy request stream (one           *)
(* configuration request, then one audio request per chunk) to the         *)
(* streaming transport, and consumes the response stream, printing voice   *)
(* activity events and transcripts and collecting every response.          *)
(*                                                                         *)
(* The transport (SpeechClient.streaming_recognize) is the environment: it *)
(* pulls requests with next(), delivers responses, closes the stream or    *)
(* fails.                                                                  *)
(***************************************************************************)
EXTENDS Integers, Sequences, FiniteSets, TLC

\* ------------------------------------------------------------------ bounds

\* Longest audio buffer explored: lengths 0..4 raise, 5..9 have chunk_length 1,
\* 10..14 have chunk_length 2 (11 is the first whose last chunk is shorter than
\* the others), 15 and more have chunk_length 3.
MaxLen == 16
\* Byte patterns explored: byte i of the buffer is (i * m) % 256, m in 0..MaxStride.
MaxStride == 1
\* Responses the transport delivers in the specification that explores every buffer.
MaxShortStream == 1
\* Responses the transport delivers in the specification that explores the response loop.
MaxResponses == 3

\* ------------------------------------------------------- program constants

\* The divisor of line 43.
Divisor == 5
\* A byte of f.read() in "rb" mode is in 0..255.
ByteMod == 256

\* ------------------------------------------------------------------ inputs

Min(a, b) == IF a < b THEN a ELSE b

\* The contents of the audio file.
Buffers ==
  { [i \in 1..n |-> (i * m) % ByteMod] : n \in 0..MaxLen, m \in 0..MaxStride }

\* The buffer used by the specification that explores the response loop.
SampleBuffer == [i \in 1..(Divisor + 1) |-> i % ByteMod]

UNSPECIFIED == "SPEECH_EVENT_TYPE_UNSPECIFIED"
BEGIN == "SPEECH_ACTIVITY_BEGIN"
END == "SPEECH_ACTIVITY_END"
SpeechEventType == {UNSPECIFIED, BEGIN, END}

\* A result is its list of alternatives, best first; an alternative is its transcript.
ResultLists ==
  { << >>,
    << <<"hello">> >>,
    << <<"world", "hello">>, <<"hello">> >> }

\* StreamingRecognizeResponse: the two fields the loop reads.
Responses ==
  { [speech_event_type |-> e, results |-> rs] : e \in SpeechEventType, rs \in ResultLists }

\* ---------------------------------------------------------- pure functions

\* Range with an inclusive stop: a start equal to stop is still produced.
RECURSIVE Range_InclusiveStop(_, _, _)
Range_InclusiveStop(start, stop, step) ==
  IF start > stop THEN << >>
  ELSE <<start>> \o Range_InclusiveStop(start + step, stop, step)

\* range(start, stop, step) for step > 0, as the list of its values.
RECURSIVE Range(_, _, _)
Range(start, stop, step) ==
  IF start >= stop THEN << >>
  ELSE <<start>> \o Range(start + step, stop, step)

\* Slice with an inclusive right end: neighbouring chunks overlap by one byte.
Slice_Overlap(s, a, b) == SubSeq(s, Min(a, Len(s)) + 1, Min(b + 1, Len(s)))

\* s[a:b] for 0 <= a <= b: Python clamps both ends to len(s).
Slice(s, a, b) == SubSeq(s, Min(a, Len(s)) + 1, Min(b, Len(s)))

\* Chunks that keeps only the full-length chunks and loses the shorter tail.
Chunks_DropsTail(buf, len) ==
  [k \in 1..(Len(buf) \div len) |-> Slice(buf, (k - 1) * len, k * len)]

\* The list comprehension of lines 44-47.
Chunks(buf, len) ==
  LET starts == Range(0, Len(buf), len)
  IN  [k \in 1..Len(starts) |-> Slice(buf, starts[k], starts[k] + len)]

\* cloud_speech.StreamingRecognizeRequest(recognizer=..., streaming_config=...)
ConfigRequest == [kind |-> "config", audio |-> << >>]
\* cloud_speech.StreamingRecognizeRequest(audio=audio)
AudioRequest(audio) == [kind |-> "audio", audio |-> audio]

STARTED == <<"Speech started.">>
ENDED == <<"Speech ended.">>
TranscriptLine(text) == <<"Transcript: ", text>>

\* Printed with the transcripts printed ahead of the event lines.
Printed_TranscriptsFirst(r) ==
  [i \in 1..Len(r.results) |-> TranscriptLine(r.results[i][1])]
  \o (IF r.speech_event_type = BEGIN THEN <<STARTED>> ELSE << >>)
  \o (IF r.speech_event_type = END THEN <<ENDED>> ELSE << >>)

\* Printed as an if / elif / else chain: an event response prints its event only.
Printed_Exclusive(r) ==
  IF r.speech_event_type = BEGIN THEN <<STARTED>>
  ELSE IF r.speech_event_type = END THEN <<ENDED>>
  ELSE [i \in 1..Len(r.results) |-> TranscriptLine(r.results[i][1])]

\* The lines the body of the response loop prints for one response.
Printed(r) ==
  (IF r.speech_event_type = BEGIN THEN <<STARTED>> ELSE << >>)
  \o (IF r.speech_event_type = END THEN <<ENDED>> ELSE << >>)
  \o [i \in 1..Len(r.results) |-> TranscriptLine(r.results[i][1])]

\* ------------------------------------------------------------------- state

VARIABLES
  pc,            \* position of the call: start, ready, consuming, body, done, error
  err,           \* the exception that ended the call, "" when none
  content,       \* the bytes read from the audio file
  chunk_length,  \* len(content) // 5
  stream,        \* the list of chunks
  calls,         \* number of client.streaming_recognize calls made
  genpc,         \* the requests generator: none, start, config, audio, done
  idx,           \* chunks of stream consumed by the audio_requests generator
  pulls,         \* next() calls the transport made on the request stream
  sent,          \* requests the request stream yielded to the transport
  arrived,       \* responses the transport delivered, in arrival order
  response,      \* the loop variable
  responses,     \* the list the loop accumulates
  out,           \* lines printed to standard output
  returned       \* the value returned to the caller, when the call returned

vars == <<pc, err, content, chunk_length, stream, calls, genpc, idx, pulls, sent,
          arrived, response, responses, out, returned>>

NoResponse == [speech_event_type |-> UNSPECIFIED, results |-> << >>]

InitWith(buffers) ==
  /\ content \in buffers
  /\ pc = "start"
  /\ err = ""
  /\ chunk_length = 0
  /\ stream = << >>
  /\ calls = 0
  /\ genpc = "none"
  /\ idx = 0
  /\ pulls = 0
  /\ sent = << >>
  /\ arrived = << >>
  /\ response = NoResponse
  /\ responses = << >>
  /\ out = << >>
  /\ returned = [has |-> FALSE, val |-> << >>]

Init == InitWith(Buffers)

InitResponses == InitWith({SampleBuffer})

\* ----------------------------------------------------------------- actions

\* Chunk with a range() that accepts a zero step and yields nothing.
Chunk_NoRaise ==
  /\ pc = "start"
  /\ chunk_length' = Len(content) \div Divisor
  /\ pc' = "ready"
  /\ err' = err
  /\ stream' = IF chunk_length' = 0 THEN << >> ELSE Chunks(content, chunk_length')
  /\ UNCHANGED <<content, calls, genpc, idx, pulls, sent, arrived, response,
                 responses, out, returned>>

\* Lines 43-47: chunk_length and the list of chunks; range() raises ValueError
\* when its step is zero.
Chunk ==
  /\ pc = "start"
  /\ chunk_length' = Len(content) \div Divisor
  /\ IF chunk_length' = 0
     THEN /\ pc' = "error"
          /\ err' = "ValueError"
          /\ stream' = stream
     ELSE /\ pc' = "ready"
          /\ err' = err
          /\ stream' = Chunks(content, chunk_length')
  /\ UNCHANGED <<content, calls, genpc, idx, pulls, sent, arrived, response,
                 responses, out, returned>>

\* Lines 48-79: the generators are created (nothing runs yet) and the streaming
\* call is opened.
StreamingRecognize ==
  /\ pc = "ready"
  /\ pc' = "consuming"
  /\ calls' = calls + 1
  /\ genpc' = "start"
  /\ idx' = 0
  /\ responses' = << >>
  /\ UNCHANGED <<err, content, chunk_length, stream, pulls, sent, arrived, response,
                 out, returned>>

\* Resume that yields the configuration request again before the first chunk.
Resume_ConfigTwice(g, i) ==
  IF g = "start"
  THEN [yields |-> <<ConfigRequest>>, genpc |-> "config", idx |-> i]
  ELSE IF g = "config"
       THEN [yields |-> <<ConfigRequest>>, genpc |-> "audio", idx |-> i]
       ELSE IF i < Len(stream)
            THEN [yields |-> <<AudioRequest(stream[i + 1])>>, genpc |-> "audio",
                  idx |-> i + 1]
            ELSE [yields |-> << >>, genpc |-> "done", idx |-> i]

\* Resume over a request list built ahead of time: the first next() hands over
\* the configuration request and every audio request at once.
Resume_Eager(g, i) ==
  IF g = "start"
  THEN [yields |-> <<ConfigRequest>> \o [k \in 1..Len(stream) |-> AudioRequest(stream[k])],
        genpc |-> "audio", idx |-> Len(stream)]
  ELSE [yields |-> << >>, genpc |-> "done", idx |-> i]

\* One resumption of the generator requests (lines 71-73) over audio_requests
\* (lines 48-50): what it yields, if anything, and where it is left.
Resume(g, i) ==
  IF g = "start"
  THEN [yields |-> <<ConfigRequest>>, genpc |-> "config", idx |-> i]
  ELSE IF i < Len(stream)
       THEN [yields |-> <<AudioRequest(stream[i + 1])>>, genpc |-> "audio", idx |-> i + 1]
       ELSE [yields |-> << >>, genpc |-> "done", idx |-> i]

\* The transport calls next() on the request stream.
TransportNext ==
  /\ pc \in {"consuming", "body"}
  /\ genpc \in {"start", "config", "audio"}
  /\ LET r == Resume(genpc, idx)
     IN  /\ sent' = sent \o r.yields
         /\ genpc' = r.genpc
         /\ idx' = r.idx
  /\ pulls' = pulls + 1
  /\ UNCHANGED <<pc, err, content, chunk_length, stream, calls, arrived, response,
                 responses, out, returned>>

\* The response iterator yields the next response (line 80).
TransportDeliver(r, limit) ==
  /\ pc = "consuming"
  /\ sent # << >>
  /\ Len(arrived) < limit
  /\ arrived' = Append(arrived, r)
  /\ response' = r
  /\ pc' = "body"
  /\ UNCHANGED <<err, content, chunk_length, stream, calls, genpc, idx, pulls, sent,
                 responses, out, returned>>

\* LoopBody that keeps only the responses that carry results.
LoopBody_SkipsEvents ==
  /\ pc = "body"
  /\ responses' = IF response.results = << >> THEN responses
                  ELSE Append(responses, response)
  /\ out' = out \o Printed(response)
  /\ pc' = "consuming"
  /\ UNCHANGED <<err, content, chunk_length, stream, calls, genpc, idx, pulls, sent,
                 arrived, response, returned>>

\* Lines 81-93: the body of the response loop.
LoopBody ==
  /\ pc = "body"
  /\ responses' = Append(responses, response)
  /\ out' = out \o Printed(response)
  /\ pc' = "consuming"
  /\ UNCHANGED <<err, content, chunk_length, stream, calls, genpc, idx, pulls, sent,
                 arrived, response, returned>>

\* The service closes the stream: the loop ends and line 95 returns.
CloseAndReturn ==
  /\ pc = "consuming"
  /\ sent # << >>
  /\ returned' = [has |-> TRUE, val |-> responses]
  /\ pc' = "done"
  /\ UNCHANGED <<err, content, chunk_length, stream, calls, genpc, idx, pulls, sent,
                 arrived, response, responses, out>>

\* TransportFail caught by a retry: the call is opened again.
TransportFail_Retry ==
  /\ pc = "consuming"
  /\ pc' = "ready"
  /\ err' = "transport"
  /\ UNCHANGED <<content, chunk_length, stream, calls, genpc, idx, pulls, sent,
                 arrived, response, responses, out, returned>>

\* The response iterator raises: nothing catches it (lines 80-95).
TransportFail ==
  /\ pc = "consuming"
  /\ pc' = "error"
  /\ err' = "transport"
  /\ UNCHANGED <<content, chunk_length, stream, calls, genpc, idx, pulls, sent,
                 arrived, response, responses, out, returned>>

Step(limit) ==
  \/ Chunk
  \/ StreamingRecognize
  \/ TransportNext
  \/ \E r \in Responses : TransportDeliver(r, limit)
  \/ LoopBody
  \/ CloseAndReturn
  \/ TransportFail

Next == Step(MaxShortStream)

NextResponses == Step(MaxResponses)

\* Every buffer, a short response stream.
Spec == Init /\ [][Next]_vars

\* One buffer, every response stream.
SpecResponses == InitResponses /\ [][NextResponses]_vars

\* ------------------------------------------------------------------ claims

RECURSIVE Concat(_)
Concat(seqs) == IF seqs = << >> THEN << >> ELSE Head(seqs) \o Concat(Tail(seqs))

IsAudio(q) == q.kind = "audio"
AudioSent == SelectSeq(sent, IsAudio)
\* The audio payloads handed to the transport, reassembled in emission order.
Reassembled == Concat([i \in 1..Len(AudioSent) |-> AudioSent[i].audio])
IsPrefix(s, t) == Len(s) <= Len(t) /\ s = SubSeq(t, 1, Len(s))
CeilDiv(a, b) == (a + b - 1) \div b
\* The request stream has been pulled to its end.
Exhausted == genpc = "done"

\* C1 (as stated): for every non-empty buffer, the audio payloads emitted by the
\* request stream, concatenated in emission order, equal the buffer. A buffer of
\* 1 to 4 bytes ends in ValueError before any request exists.
C1_Original ==
  (Len(content) > 0 /\ (Exhausted \/ err = "ValueError")) => Reassembled = content

\* C1 (amended): for every buffer of at least 5 bytes the call raises no
\* ValueError, the payloads emitted so far are always a prefix of the buffer (no
\* gap, no overlap), and once the stream is exhausted they equal the buffer.
C1_RoundTrip ==
  /\ IsPrefix(Reassembled, content)
  /\ Len(content) >= 5 => err # "ValueError"
  /\ Exhausted => Reassembled = content

C1_Witness == Exhausted /\ Len(content) = 11 /\ Reassembled = content /\ content[11] = 11

\* C2: at every prefix of the request stream the first request is the
\* Configuration request, it is the only one, and every later request is Audio.
C2_ConfigFirst ==
  /\ pulls >= 1 => sent # << >>
  /\ sent # << >> =>
       /\ sent[1] = [kind |-> "config", audio |-> << >>]
       /\ \A i \in 2..Len(sent) : sent[i].kind = "audio"
       /\ Cardinality({i \in 1..Len(sent) : sent[i].kind = "config"}) = 1

C2_Witness == Exhausted /\ Len(sent) >= 6 /\ sent[1].kind = "config"

\* C3: with chunk_length = L // 5 > 0, ceil(L / chunk_length) Audio requests are
\* emitted and every one but possibly the last carries chunk_length bytes.
C3_ChunkCount ==
  /\ pc \notin {"start", "error"} =>
       /\ chunk_length = Len(content) \div 5
       /\ chunk_length > 0
       /\ Len(stream) = CeilDiv(Len(content), chunk_length)
  /\ \A i \in 1..Len(AudioSent) :
       i < CeilDiv(Len(content), chunk_length) => Len(AudioSent[i].audio) = chunk_length
  /\ Exhausted =>
       /\ Len(AudioSent) = CeilDiv(Len(content), chunk_length)
       /\ Len(AudioSent[Len(AudioSent)].audio) \in 1..chunk_length

C3_Witness ==
  /\ Exhausted
  /\ chunk_length = 2
  /\ Len(AudioSent) = 6
  /\ Len(AudioSent[6].audio) = 1

\* C4: when the stream closes normally the returned list is the list of the
\* responses delivered, each once, in arrival order.
C4_ReturnsAllInOrder ==
  /\ pc = "done" => (returned.has /\ returned.val = arrived)
  /\ pc = "consuming" => responses = arrived

C4_Witness ==
  /\ pc = "done"
  /\ Len(returned.val) = 3
  /\ returned.val[1].speech_event_type = "SPEECH_ACTIVITY_END"
  /\ returned.val[2].results # << >>
  /\ returned.val[3] = returned.val[1]

\* The lines the specification asks for one response.
ExpectedLines(r) ==
  LET event == CASE r.speech_event_type = "SPEECH_ACTIVITY_BEGIN" -> << <<"Speech started.">> >>
                 [] r.speech_event_type = "SPEECH_ACTIVITY_END" -> << <<"Speech ended.">> >>
                 [] OTHER -> << >>
  IN  event \o [i \in 1..Len(r.results) |-> <<"Transcript: ", Head(r.results[i])>>]

HelloStream ==
  << [speech_event_type |-> "SPEECH_ACTIVITY_BEGIN", results |-> << >>],
     [speech_event_type |-> "SPEECH_EVENT_TYPE_UNSPECIFIED", results |-> << <<"hello">> >>],
     [speech_event_type |-> "SPEECH_ACTIVITY_END", results |-> << >>] >>

\* C5: the printed lines are, response after response in arrival order, the
\* lines of each response taken alone (its event line, then one Transcript line
\* per result with the top alternative); [Begin, TranscriptResult("hello"), End]
\* prints started, "Transcript: hello", ended and returns three responses.
C5_PrintOrder ==
  /\ out = Concat([i \in 1..Len(responses) |-> ExpectedLines(responses[i])])
  /\ (pc = "done" /\ arrived = HelloStream) =>
       /\ out = << <<"Speech started.">>, <<"Transcript: ", "hello">>, <<"Speech ended.">> >>
       /\ Len(returned.val) = 3

C5_Witness == pc = "done" /\ arrived = HelloStream /\ Len(out) = 3

\* C6: a buffer shorter than 5 bytes gives chunk_length 0 and the call ends in
\* ValueError: it has stopped, no call was opened, no request was handed to the
\* transport and nothing is returned.
C6_SmallBufferError ==
  (Len(content) < 5 /\ pc # "start") =>
    /\ chunk_length = 0
    /\ pc = "error"
    /\ err = "ValueError"
    /\ calls = 0
    /\ pulls = 0
    /\ sent = << >>
    /\ ~returned.has
    /\ ~ENABLED Step(Len(arrived) + 1)

C6_Witness == Len(content) = 4 /\ pc = "error" /\ err = "ValueError"

\* C7 (as stated): whenever chunking is defined, exactly 5 Audio requests are
\* emitted.
C7_Original == Exhausted => Len(AudioSent) = 5

\* C7 (amended): exactly 5 Audio requests are emitted when the buffer length is
\* a multiple of 5; otherwise there are 5 + ceil((L mod 5) / (L // 5)) of them,
\* between 6 and 9.
C7_FiveOrMore ==
  Exhausted =>
    LET L == Len(content)
    IN  /\ L % 5 = 0 => Len(AudioSent) = 5
        /\ L % 5 # 0 =>
             /\ Len(AudioSent) = 5 + CeilDiv(L % 5, L \div 5)
             /\ Len(AudioSent) \in 6..9

C7_Witness == Exhausted /\ Len(content) = 9 /\ Len(AudioSent) = 9

\* The whole request stream, were it pulled to its end.
FullStream ==
  << [kind |-> "config", audio |-> << >>] >>
  \o [k \in 1..Len(stream) |-> [kind |-> "audio", audio |-> stream[k]]]

C9_Original ==
  [][(pc = "body" /\ pc' = "consuming"
      /\ response.speech_event_type = "SPEECH_ACTIVITY_BEGIN")
     => out' = Append(out, <<"Speech started.">>)]_vars

\* C9 (amended): a response whose event type is Begin prints "Speech started."
\* once and first, never "Speech ended.", and then one Transcript line for each
\* result it carries (none when it carries no result).
C9_BeginThenTranscripts ==
  [][(pc = "body" /\ pc' = "consuming"
      /\ response.speech_event_type = "SPEECH_ACTIVITY_BEGIN")
     => out' = Append(out, <<"Speech started.">>)
               \o [i \in 1..Len(response.results) |->
                     <<"Transcript: ", Head(response.results[i])>>]]_vars

C9_Witness ==
  /\ pc = "consuming"
  /\ Len(responses) = 2
  /\ responses[2].speech_event_type = "SPEECH_ACTIVITY_BEGIN"
  /\ Len(responses[2].results) = 2
  /\ Len(out) >= 3
  /\ SubSeq(out, Len(out) - 2, Len(out))
       = << <<"Speech started.">>, <<"Transcript: ", "world">>, <<"Transcript: ", "hello">> >>

\* C10: after a transport failure the call has ended in the error state: the
\* streaming call was opened once, nothing is returned and no step of the call
\* or of its request stream can happen any more.
C10_FailureSurfaces ==
  /\ calls <= 1
  /\ err = "transport" =>
       /\ pc = "error"
       /\ calls = 1
       /\ ~returned.has
       /\ ~ENABLED Step(Len(arrived) + 1)

C10_Witness ==
  /\ err = "transport"
  /\ pc = "error"
  /\ Len(responses) = 2
  /\ ~Exhausted
  /\ Len(sent) >= 2

====
